---- MODULE Spec2Model ----
(***************************************************************************)
(* The content quality analyzer of content-forge-ai:                       *)
(* calculateContentQuality and countSyllables.                             *)
(*                                                                         *)
(* A string is a sequence of one-character strings.  A JavaScript number   *)
(* that results from a division is an exact fraction [num, den]; den = 0   *)
(* stands for the non-finite values (NaN is 0/0, Infinity is 1/0).         *)
(***************************************************************************)
EXTENDS Integers, Sequences, FiniteSets, TLC

VARIABLES content, pc, locals, quality, calls, writer

vars == <<content, pc, locals, quality, calls, writer>>

(***************************************************************************)
(* Character classes of the regular expressions.                           *)
(***************************************************************************)
Whitespace == {" ", "\t", "\n", "\r", "\f"}

Terminators == {".", "!", "?"}

Digits == {"0", "1", "2", "3", "4", "5", "6", "7", "8", "9"}

LowerLetters ==
  <<"a", "b", "c", "d", "e", "f", "g", "h", "i", "j", "k", "l", "m",
    "n", "o", "p", "q", "r", "s", "t", "u", "v", "w", "x", "y", "z">>

UpperLetters ==
  <<"A", "B", "C", "D", "E", "F", "G", "H", "I", "J", "K", "L", "M",
    "N", "O", "P", "Q", "R", "S", "T", "U", "V", "W", "X", "Y", "Z">>

Letters == {LowerLetters[i] : i \in DOMAIN LowerLetters}

Vowels == {"a", "e", "i", "o", "u", "y"}

Emphasis == {"*", "_"}

\* The grave accent, which a TLA+ string cannot hold.
Backtick == "grave"

Max(a, b) == IF a >= b THEN a ELSE b

Min(a, b) == IF a <= b THEN a ELSE b

\* The least index j >= i with s[j] \in C, or Len(s) + 1 when there is none.
NextIndex(s, i, C) ==
  LET hits == {j \in i..Len(s) : s[j] \in C}
  IN  IF hits = {} THEN Len(s) + 1
      ELSE CHOOSE m \in hits : \A k \in hits : m <= k

(***************************************************************************)
(* The markdown stripper: five global replacements, each a left-to-right   *)
(* scan that takes the leftmost match and resumes after it.  Each scan     *)
(* jumps from one candidate first character to the next.                   *)
(***************************************************************************)

\* /#{1,6}\s/ tried at c: the greedy run of up to six '#' must be followed
\* by a whitespace character.  The index of that character, or 0.
HeadingMatchEnd(s, c) ==
  LET ks == {k \in 1..6 : /\ c + k <= Len(s)
                          /\ \A j \in c..(c + k - 1) : s[j] = "#"
                          /\ s[c + k] \in Whitespace}
  IN  IF ks = {} THEN 0 ELSE c + (CHOOSE k \in ks : \A m \in ks : m <= k)

RECURSIVE StripHeadingsFrom(_, _)
StripHeadingsFrom(s, i) ==
  LET c == NextIndex(s, i, {"#"})
  IN  IF c > Len(s) THEN SubSeq(s, i, Len(s))
      ELSE LET e == HeadingMatchEnd(s, c)
           IN  IF e = 0
               THEN SubSeq(s, i, c) \o StripHeadingsFrom(s, c + 1)
               ELSE SubSeq(s, i, c - 1) \o StripHeadingsFrom(s, e + 1)

\* .replace(/#{1,6}\s/g, '')
StripHeadings(s) == StripHeadingsFrom(s, 1)

RECURSIVE StripDoubleEmphasisFrom(_, _)
StripDoubleEmphasisFrom(s, i) ==
  LET c == NextIndex(s, i, Emphasis)
  IN  IF c > Len(s) THEN SubSeq(s, i, Len(s))
      ELSE IF c + 1 <= Len(s) /\ s[c + 1] = s[c]
           THEN SubSeq(s, i, c - 1) \o StripDoubleEmphasisFrom(s, c + 2)
           ELSE SubSeq(s, i, c) \o StripDoubleEmphasisFrom(s, c + 1)

\* .replace(/\*\*|__/g, '')
StripDoubleEmphasis(s) == StripDoubleEmphasisFrom(s, 1)

\* The replacement without its g flag: only the first marker is removed.
StripFirstSingleEmphasis(s) ==
  LET p == NextIndex(s, 1, Emphasis)
  IN  SubSeq(s, 1, p - 1) \o SubSeq(s, p + 1, Len(s))

\* .replace(/\*|_/g, '')
StripSingleEmphasis(s) == SelectSeq(s, LAMBDA ch : ch \notin Emphasis)

\* /\[([^\]]+)\]\([^)]+\)/ tried at the '[' at c.  The group runs to the
\* first ']' after c, "(" must follow it, and the url runs to the first ')'.
\* <<index of the ']', index of the ')'>>, or <<0, 0>>.
LinkMatch(s, c) ==
  LET j == NextIndex(s, c + 1, {"]"})
      k == NextIndex(s, j + 2, {")"})
  IN  IF /\ j >= c + 2
         /\ j + 1 <= Len(s)
         /\ s[j + 1] = "("
         /\ k >= j + 3
         /\ k <= Len(s)
      THEN <<j, k>>
      ELSE <<0, 0>>

RECURSIVE ReplaceLinksFrom(_, _)
ReplaceLinksFrom(s, i) ==
  LET c == NextIndex(s, i, {"["})
  IN  IF c > Len(s) THEN SubSeq(s, i, Len(s))
      ELSE LET m == LinkMatch(s, c)
           IN  IF m[1] = 0
               THEN SubSeq(s, i, c) \o ReplaceLinksFrom(s, c + 1)
               ELSE SubSeq(s, i, c - 1) \o SubSeq(s, c + 1, m[1] - 1)
                      \o ReplaceLinksFrom(s, m[2] + 1)

\* .replace(/\[([^\]]+)\]\([^)]+\)/g, '$1')
ReplaceLinks(s) == ReplaceLinksFrom(s, 1)

IsFenceAt(s, j) ==
  /\ j + 2 <= Len(s)
  /\ s[j] = Backtick
  /\ s[j + 1] = Backtick
  /\ s[j + 2] = Backtick

\* The body of the fence taken greedily: it ends at the last closing fence.
FenceMatchEndGreedy(s, c) ==
  LET closes == {j \in (c + 3)..Len(s) : IsFenceAt(s, j)}
  IN  IF IsFenceAt(s, c) /\ closes # {}
      THEN (CHOOSE j \in closes : \A k \in closes : j >= k) + 2
      ELSE 0

\* /```[\s\S]*?```/ tried at c: the lazy body ends at the nearest closing
\* fence.  The index of the last backtick of the match, or 0.
FenceMatchEnd(s, c) ==
  LET closes == {j \in (c + 3)..Len(s) : IsFenceAt(s, j)}
  IN  IF IsFenceAt(s, c) /\ closes # {}
      THEN (CHOOSE j \in closes : \A k \in closes : j <= k) + 2
      ELSE 0

RECURSIVE StripFencesFrom(_, _)
StripFencesFrom(s, i) ==
  LET c == NextIndex(s, i, {Backtick})
  IN  IF c > Len(s) THEN SubSeq(s, i, Len(s))
      ELSE LET e == FenceMatchEnd(s, c)
           IN  IF e = 0
               THEN SubSeq(s, i, c) \o StripFencesFrom(s, c + 1)
               ELSE SubSeq(s, i, c - 1) \o StripFencesFrom(s, e + 1)

\* .replace(/```[\s\S]*?```/g, '')
StripFences(s) == StripFencesFrom(s, 1)

\* /`[^`]+`/ tried at the backtick at c: at least one other character, then
\* the next backtick.  The index of the closing backtick, or 0.
InlineCodeMatchEnd(s, c) ==
  LET k == NextIndex(s, c + 1, {Backtick})
  IN  IF k >= c + 2 /\ k <= Len(s) THEN k ELSE 0

RECURSIVE StripInlineCodeFrom(_, _)
StripInlineCodeFrom(s, i) ==
  LET c == NextIndex(s, i, {Backtick})
  IN  IF c > Len(s) THEN SubSeq(s, i, Len(s))
      ELSE LET e == InlineCodeMatchEnd(s, c)
           IN  IF e = 0
               THEN SubSeq(s, i, c) \o StripInlineCodeFrom(s, c + 1)
               ELSE SubSeq(s, i, c - 1) \o StripInlineCodeFrom(s, e + 1)

\* .replace(/`[^`]+`/g, '')
StripInlineCode(s) == StripInlineCodeFrom(s, 1)

\* Inline code spans removed before fenced blocks.
StripMarkdownCodeFirst(s) ==
  StripFences(StripInlineCode(ReplaceLinks(StripSingleEmphasis(StripDoubleEmphasis(StripHeadings(s))))))

\* const plainText = content.replace(...)...  (the five steps in order)
StripMarkdown(s) ==
  StripInlineCode(StripFences(ReplaceLinks(
    StripSingleEmphasis(StripDoubleEmphasis(StripHeadings(s))))))

(***************************************************************************)
(* The lexical counter.                                                    *)
(***************************************************************************)

\* String.prototype.split on the pattern /[D]+/: the pieces of s[lo..hi]
\* between the maximal runs of characters of D, the empty piece before a
\* leading run and after a trailing run included.  Computed by halving the
\* range: the last piece of the left half continues in the first piece of
\* the right half, and an empty piece between two delimiters of one run is
\* no piece.
RECURSIVE SplitRange(_, _, _, _)
SplitRange(s, D, lo, hi) ==
  IF lo > hi THEN << <<>> >>
  ELSE IF lo = hi THEN (IF s[lo] \in D THEN << <<>>, <<>> >> ELSE << <<s[lo]>> >>)
  ELSE LET mid == (lo + hi) \div 2
           L == SplitRange(s, D, lo, mid)
           R == SplitRange(s, D, mid + 1, hi)
           joined == L[Len(L)] \o R[1]
       IN  SubSeq(L, 1, Len(L) - 1)
             \o (IF joined = <<>> /\ Len(L) > 1 /\ Len(R) > 1
                 THEN <<>> ELSE <<joined>>)
             \o SubSeq(R, 2, Len(R))

SplitOnRuns(s, D) == SplitRange(s, D, 1, Len(s))

\* The filter without trim: only the empty segment is dropped.
IsEmptySegment(s) == Len(s) = 0

\* s.trim().length > 0 fails exactly when every character is whitespace.
IsBlank(s) == \A i \in DOMAIN s : s[i] \in Whitespace

\* The split without its filter: the empty tokens at the ends are kept.
SplitWordsUnfiltered(plainText) == SplitOnRuns(plainText, Whitespace)

\* plainText.split(/\s+/).filter(w => w.length > 0)
SplitWords(plainText) ==
  SelectSeq(SplitOnRuns(plainText, Whitespace), LAMBDA w : Len(w) > 0)

\* plainText.split(/[.!?]+/).filter(s => s.trim().length > 0)
SplitSentences(plainText) ==
  SelectSeq(SplitOnRuns(plainText, Terminators), LAMBDA x : ~IsBlank(x))

LowerCaseOf ==
  [ch \in {UpperLetters[i] : i \in DOMAIN UpperLetters} |->
     LowerLetters[CHOOSE i \in DOMAIN UpperLetters : UpperLetters[i] = ch]]

ToLowerCase(ch) == IF ch \in DOMAIN LowerCaseOf THEN LowerCaseOf[ch] ELSE ch

\* The replacement without toLowerCase: capitals are dropped.
CleanWordCaseSensitive(word) == SelectSeq(word, LAMBDA ch : ch \in Letters)

\* word.toLowerCase().replace(/[^a-z]/g, '')
CleanWord(word) ==
  SelectSeq([i \in DOMAIN word |-> ToLowerCase(word[i])],
            LAMBDA ch : ch \in Letters)

\* The class without the 'l': [^aeiouy].
SuffixNonVowel(ch) == ch \notin Vowels

\* The class [^laeiouy] of the suffix pattern.
SuffixConsonant(ch) == ch \notin (Vowels \cup {"l"})

\* word.replace(/(?:[^laeiouy]es|ed|[^laeiouy]e)$/, ''): the leftmost match
\* that ends the word, so the three-character alternative before the two
\* two-character ones, and "ed" before [^laeiouy]e.
StripSuffix(w) ==
  LET n == Len(w)
  IN  IF n >= 3 /\ SuffixConsonant(w[n - 2]) /\ w[n - 1] = "e" /\ w[n] = "s"
      THEN SubSeq(w, 1, n - 3)
      ELSE IF n >= 2 /\ w[n - 1] = "e" /\ w[n] = "d"
      THEN SubSeq(w, 1, n - 2)
      ELSE IF n >= 2 /\ SuffixConsonant(w[n - 1]) /\ w[n] = "e"
      THEN SubSeq(w, 1, n - 2)
      ELSE w

\* word.replace(/^y/, '')
StripLeadingY(w) == IF Len(w) >= 1 /\ w[1] = "y" THEN Tail(w) ELSE w

\* The number of matches of /[aeiouy]{1,2}/g in w from index i on: each
\* match takes two vowels when two are there, else one.
RECURSIVE VowelGroupsFrom(_, _)
VowelGroupsFrom(w, i) ==
  IF i > Len(w) THEN 0
  ELSE IF w[i] \in Vowels
       THEN 1 + VowelGroupsFrom(w,
                  IF i + 1 <= Len(w) /\ w[i + 1] \in Vowels THEN i + 2 ELSE i + 1)
       ELSE VowelGroupsFrom(w, i + 1)

\* The count without its floor: no match counts 0.
countSyllablesUnfloored(word) ==
  LET cleaned == CleanWord(word)
  IN  IF Len(cleaned) <= 3 THEN 1
      ELSE VowelGroupsFrom(StripLeadingY(StripSuffix(cleaned)), 1)

\* The number of matches alone: no count of 1 for short words or for none.
countSyllablesMatches(word) ==
  VowelGroupsFrom(StripLeadingY(StripSuffix(CleanWord(word))), 1)

countSyllables(word) ==
  LET cleaned == CleanWord(word)
  IN  IF Len(cleaned) <= 3 THEN 1
      ELSE LET groups == VowelGroupsFrom(StripLeadingY(StripSuffix(cleaned)), 1)
           IN  IF groups > 0 THEN groups ELSE 1

\* words.reduce((count, word) => count + countSyllables(word), 0), the sum
\* taken by halving words[lo..hi].
RECURSIVE SyllablesInRange(_, _, _)
SyllablesInRange(words, lo, hi) ==
  IF lo > hi THEN 0
  ELSE IF lo = hi THEN countSyllables(words[lo])
  ELSE LET mid == (lo + hi) \div 2
       IN  SyllablesInRange(words, lo, mid) + SyllablesInRange(words, mid + 1, hi)

\* The reduction started from 1 instead of 0.
TotalSyllablesFromOne(words) == 1 + SyllablesInRange(words, 1, Len(words))

TotalSyllables(words) == SyllablesInRange(words, 1, Len(words))

\* content.includes('##')
HasHeadingMarker(s) ==
  \E i \in 1..(Len(s) - 1) : s[i] = "#" /\ s[i + 1] = "#"

\* content.match(/\d+\./g)?.length, 0 standing for the undefined of no
\* match: a match is a whole run of digits and the dot after it, so there is
\* one match for every dot that follows a digit.
NumberedMatches(s) ==
  Cardinality({i \in 2..Len(s) : s[i] = "." /\ s[i - 1] \in Digits})

(***************************************************************************)
(* The readability scorer.                                                 *)
(***************************************************************************)

\* The JavaScript quotient a / b of two counts.
Quotient(a, b) == [num |-> a, den |-> b]

IsNaN(x) == x.den = 0 /\ x.num = 0

IsFiniteNumber(x) == x.den > 0

\* x < c and x > c for a whole number c; false of NaN.
LessThan(x, c) == IF x.den > 0 THEN x.num < c * x.den ELSE x.num < 0

GreaterThan(x, c) == IF x.den > 0 THEN x.num > c * x.den ELSE x.num > 0

\* Math.round(n / d) for d > 0: the nearest integer, a tie going up.
RoundHalfUp(n, d) == (2 * n + d) \div (2 * d)

\* Math.round(avgWordsPerSentence * 10) / 10: a number of tenths.
RoundToTenth(x) ==
  IF IsFiniteNumber(x) THEN Quotient(RoundHalfUp(10 * x.num, x.den), 10) ELSE x

\* Math.floor in place of Math.round: the floor of the value itself.
FleschTruncate(x, y) ==
  LET q1 == (203 * x.num) \div (200 * x.den)
      r1 == (203 * x.num) % (200 * x.den)
      q2 == (423 * y.num) \div (5 * y.den)
      r2 == (423 * y.num) % (5 * y.den)
      rest == 167 * x.den * y.den - r1 * y.den - 40 * r2 * x.den
  IN  206 - q1 - q2 + (rest \div (200 * x.den * y.den))

\* Math.round(206.835 - (1.015 * x) - (84.6 * y)), exactly.  With x = a/b
\* and y = c/e the value plus one half is
\*     41467/200 - 203a/(200b) - 423c/(5e),
\* and its floor is taken with the whole parts of the two quotients split
\* off, which keeps every product small.
FleschRound(x, y) ==
  LET q1 == (203 * x.num) \div (200 * x.den)
      r1 == (203 * x.num) % (200 * x.den)
      q2 == (423 * y.num) \div (5 * y.den)
      r2 == (423 * y.num) % (5 * y.den)
      rest == 67 * x.den * y.den - r1 * y.den - 40 * r2 * x.den
  IN  207 - q1 - q2 + (rest \div (200 * x.den * y.den))

\* The score is computed from the quotient rounded for the caller.
FleschScoreFromRounded(avgWordsPerSentence, avgSyllablesPerWord) ==
  IF IsNaN(avgWordsPerSentence) \/ IsNaN(avgSyllablesPerWord)
  THEN Quotient(0, 0)
  ELSE IF ~IsFiniteNumber(avgWordsPerSentence)
          \/ ~IsFiniteNumber(avgSyllablesPerWord)
  THEN Quotient(-1, 0)
  ELSE Quotient(FleschRound(RoundToTenth(avgWordsPerSentence),
                            avgSyllablesPerWord), 1)

\* const fleschScore = Math.round(...): NaN when an operand is NaN, and
\* -Infinity when one is infinite.
FleschScore(avgWordsPerSentence, avgSyllablesPerWord) ==
  IF IsNaN(avgWordsPerSentence) \/ IsNaN(avgSyllablesPerWord)
  THEN Quotient(0, 0)
  ELSE IF ~IsFiniteNumber(avgWordsPerSentence)
          \/ ~IsFiniteNumber(avgSyllablesPerWord)
  THEN Quotient(-1, 0)
  ELSE Quotient(FleschRound(avgWordsPerSentence, avgSyllablesPerWord), 1)

\* A clamp that forgets the lower bound: Math.min(100, fleschScore).
ClampScoreUpperOnly(fleschScore) ==
  IF GreaterThan(fleschScore, 100) THEN Quotient(100, 1) ELSE fleschScore

\* Math.max(0, Math.min(100, fleschScore)); NaN stays NaN.
ClampScore(fleschScore) ==
  IF IsNaN(fleschScore) THEN fleschScore
  ELSE IF LessThan(fleschScore, 0) THEN Quotient(0, 1)
  ELSE IF GreaterThan(fleschScore, 100) THEN Quotient(100, 1)
  ELSE fleschScore

WordsPerMinute == 200

\* A read time that is never below one minute.
ReadTimeAtLeastOne(wordCount) ==
  Max(1, (wordCount + WordsPerMinute - 1) \div WordsPerMinute)

\* Math.round in place of Math.ceil.
ReadTimeRounded(wordCount) == RoundHalfUp(wordCount, WordsPerMinute)

\* Math.ceil(wordCount / 200)
ReadTime(wordCount) == (wordCount + WordsPerMinute - 1) \div WordsPerMinute

(***************************************************************************)
(* The indicator generator.                                                *)
(***************************************************************************)
LongFormWords == 800

NumberedPoints == 5

ConciseSentenceWords == 20

LongSentenceWords == 25

ReadableScore == 50

ShortContentWords == 500

\* Long form only beyond a thousand words.
IsLongFormThousand(wordCount) == wordCount > 1000

IsLongForm(wordCount) == wordCount > LongFormWords

\* More than five matches are asked for.
HasNumberedPointsStrict(s) == NumberedMatches(s) > NumberedPoints

HasNumberedPoints(s) == NumberedMatches(s) >= NumberedPoints

\* The rule reads the value rounded for the caller.
IsConciseRounded(avgWordsPerSentence) ==
  LessThan(RoundToTenth(avgWordsPerSentence), ConciseSentenceWords)

IsConcise(avgWordsPerSentence) ==
  LessThan(avgWordsPerSentence, ConciseSentenceWords)

\* The comparison turned round: avgWordsPerSentence < 25.
HasShortSentences(avgWordsPerSentence) == LessThan(avgWordsPerSentence, LongSentenceWords)

HasLongSentences(avgWordsPerSentence) ==
  GreaterThan(avgWordsPerSentence, LongSentenceWords)

IsHardToRead(readabilityScore) == LessThan(readabilityScore, ReadableScore)

\* The threshold itself counts as short.
IsShortContentInclusive(wordCount) == wordCount <= ShortContentWords

IsShortContent(wordCount) == wordCount < ShortContentWords

\* The test for any '#' at all: !content.includes('#').
LacksAnyHash(s) == \A i \in DOMAIN s : s[i] # "#"

\* !content.includes('##')
LacksHeadingMarker(s) == ~HasHeadingMarker(s)

\* The four conditional pushes of a list: the strings whose condition holds,
\* in rule order.
Pushed(rules) ==
  LET text(i) == IF rules[i][1] THEN <<rules[i][2]>> ELSE <<>>
  IN  text(1) \o text(2) \o text(3) \o text(4)

UniquenessIndicators(s, wordCount, avgWordsPerSentence) ==
  Pushed(<< <<IsLongForm(wordCount), "Long-form content">>,
            <<HasHeadingMarker(s), "Well-structured with headings">>,
            <<HasNumberedPoints(s), "Numbered points included">>,
            <<IsConcise(avgWordsPerSentence), "Clear, concise sentences">> >>)

SuggestedImprovements(s, wordCount, avgWordsPerSentence, readabilityScore) ==
  Pushed(<< <<HasLongSentences(avgWordsPerSentence),
              "Consider breaking up long sentences for better readability">>,
            <<IsHardToRead(readabilityScore),
              "Use simpler words to improve accessibility">>,
            <<IsShortContent(wordCount),
              "Consider expanding content for more depth">>,
            <<LacksHeadingMarker(s),
              "Add section headings to improve structure">> >>)

\* The count without its floor: sentences.length.
SentenceCountUnfloored(sentences) == Len(sentences)

\* Math.max(sentences.length, 1)
SentenceCount(sentences) == Max(Len(sentences), 1)

\* The operands exchanged: sentenceCount / wordCount.
AvgSentencesPerWord(wordCount, sentenceCount) == Quotient(sentenceCount, wordCount)

\* wordCount / sentenceCount
AvgWordsPerSentence(wordCount, sentenceCount) == Quotient(wordCount, sentenceCount)

\* The quotient without its guard: syllables / wordCount.
AvgSyllablesPerWordUnguarded(syllables, wordCount) == Quotient(syllables, wordCount)

\* syllables / Math.max(wordCount, 1)
AvgSyllablesPerWord(syllables, wordCount) == Quotient(syllables, Max(wordCount, 1))

\* The constants of the body of calculateContentQuality(s), lines 59-107.
Locals(s) ==
  LET plainText == StripMarkdown(s)
      words == SplitWords(plainText)
      sentences == SplitSentences(plainText)
      syllables == TotalSyllables(words)
      wordCount == Len(words)
      sentenceCount == SentenceCount(sentences)
      avgWordsPerSentence == AvgWordsPerSentence(wordCount, sentenceCount)
      avgSyllablesPerWord == AvgSyllablesPerWord(syllables, wordCount)
      fleschScore == FleschScore(avgWordsPerSentence, avgSyllablesPerWord)
      readabilityScore == ClampScore(fleschScore)
  IN  [plainText |-> plainText,
       syllables |-> syllables,
       wordCount |-> wordCount,
       sentenceCount |-> sentenceCount,
       avgWordsPerSentence |-> avgWordsPerSentence,
       avgSyllablesPerWord |-> avgSyllablesPerWord,
       fleschScore |-> fleschScore,
       readabilityScore |-> readabilityScore,
       estimatedReadTime |-> ReadTime(wordCount),
       uniquenessIndicators |->
         UniquenessIndicators(s, wordCount, avgWordsPerSentence),
       suggestedImprovements |->
         SuggestedImprovements(s, wordCount, avgWordsPerSentence, readabilityScore)]

\* The record of the return statement, lines 109-117.
ContentQuality(l) ==
  [readabilityScore |-> l.readabilityScore,
   estimatedReadTime |-> l.estimatedReadTime,
   wordCount |-> l.wordCount,
   sentenceCount |-> l.sentenceCount,
   avgWordsPerSentence |-> RoundToTenth(l.avgWordsPerSentence),
   uniquenessIndicators |-> l.uniquenessIndicators,
   suggestedImprovements |-> l.suggestedImprovements]

(***************************************************************************)
(* The inputs: every string of at most MaxLen characters of Alphabet, and  *)
(* documents of many words whose counts lie within Spread of the           *)
(* thresholds of the rules.                                                *)
(***************************************************************************)
MaxLen == 3

Spread == 1

MaxNumbered == 5

Alphabet == {"a", "b", " ", ".", "#", "1"}

ShortStrings == UNION {[1..n -> Alphabet] : n \in 0..MaxLen}

\* The concatenation of the strings parts[lo..hi].
RECURSIVE Flatten(_, _, _)
Flatten(parts, lo, hi) ==
  IF lo > hi THEN <<>>
  ELSE IF lo = hi THEN parts[lo]
  ELSE LET mid == (lo + hi) \div 2
       IN  Flatten(parts, lo, mid) \o Flatten(parts, mid + 1, hi)

Repeat(s, n) == Flatten([i \in 1..n |-> s], 1, n)

\* The i-th word of a text of the given kind: kind 0 is all "a" (one
\* syllable), kind 1 alternates "a" and "abab" (two syllables), kind 2 is all
\* "abab" and kind 3 all "ababab" (three syllables).
WordOfKind(kind, i) ==
  IF kind = 0 \/ (kind = 1 /\ i % 2 = 1) THEN <<"a">>
  ELSE IF kind = 3 THEN <<"a", "b", "a", "b", "a", "b">>
  ELSE <<"a", "b", "a", "b">>

\* A text of w words in s sentences: the last s words end in a dot.
Body(kind, s, w) ==
  Flatten([i \in 1..w |->
             WordOfKind(kind, i) \o (IF i > w - s THEN <<".">> ELSE <<>>) \o <<" ">>],
          1, w)

Headings == {<<>>, <<"#", " ">>, <<"#", "#", " ">>}

NumberedList(k) == Repeat(<<"1", ".", " ">>, k)

Prefixes ==
  Headings
    \cup {NumberedList(k) : k \in (NumberedPoints - 1)..MaxNumbered}
    \cup {<<"#", "#", " ">> \o NumberedList(NumberedPoints)}

SentenceCounts == {10, 20, 21, 40}

WordCounts(s) ==
  {c * s + d : c \in {ConciseSentenceWords, LongSentenceWords},
               d \in (0 - Spread)..Spread}

Documents ==
  UNION {{p \o Body(kind, s, w) :
            p \in Prefixes, kind \in 0..3, w \in WordCounts(s)} :
         s \in SentenceCounts}

(***************************************************************************)
(* One invocation: the argument, the constants of the body once it has     *)
(* run, and the record it returned.  calls holds the invocations that run  *)
(* side by side, of which there are none here.                             *)
(***************************************************************************)
NotRun == [returned |-> FALSE]

NoCalls == <<>>

\* No id: the null of currentProcessingId and showQualityPanel.
NullId == 0

\* No message: the null of error.
NoError == [message |-> "null", title |-> <<>>]

\* The ContentWriter component just mounted on a queue, with the results
\* of its cache, and the state of App that its callbacks write.  The run
\* of handleProcessQueue keeps its pendingIdeas and the index of the idea it
\* waits for (0 when no run is under way); response is the text of the last
\* answer that writeContent parsed.
WriterOf(queue, results) ==
  [queue |-> queue,
   results |-> results,
   processing |-> FALSE,
   currentProcessingId |-> NullId,
   error |-> NoError,
   expandedResults |-> {},
   showQualityPanel |-> NullId,
   generatedHistory |-> <<>>,
   pastTopics |-> <<>>,
   pendingIdeas |-> <<>>,
   index |-> 0,
   response |-> <<>>]

NoWriter == WriterOf(<<>>, <<>>)

Init ==
  /\ content \in ShortStrings \cup Documents
  /\ pc = "ready"
  /\ locals = NotRun
  /\ quality = NotRun
  /\ calls = NoCalls
  /\ writer = NoWriter

calculateContentQuality ==
  /\ pc = "ready"
  /\ pc' = "returned"
  /\ locals' = Locals(content)
  /\ quality' = ContentQuality(locals')
  /\ UNCHANGED <<content, calls, writer>>

Next == calculateContentQuality

Spec == Init /\ [][Next]_vars

(***************************************************************************)
(* Marked-up inputs: every string of at most MaxLen characters of          *)
(* MarkAlphabet, and documents of at most MaxPieces items, an item being   *)
(* one well-formed span of markup followed by a separator of literal       *)
(* prose.  Each item records the text a reader sees of it.                 *)
(***************************************************************************)
MaxPieces == 2

MarkAlphabet == {"#", " ", "\n", "*", "_", Backtick, "a", ".", "1"}

MarkStrings == UNION {[1..n -> MarkAlphabet] : n \in 0..MaxLen}

Markups ==
  {[raw |-> <<"*", "*", "b", "*", "*">>, visible |-> <<"b">>],
   [raw |-> <<"_", "_", "b", "_", "_">>, visible |-> <<"b">>],
   [raw |-> <<"*", "i", "*">>, visible |-> <<"i">>],
   [raw |-> <<"_", "i", "_">>, visible |-> <<"i">>],
   [raw |-> <<"[", "t", "]", "(", "u", ".", "c", ")">>, visible |-> <<"t">>],
   [raw |-> <<Backtick, "c", Backtick>>, visible |-> <<>>],
   [raw |-> <<Backtick, Backtick, Backtick, "\n", "f", "\n",
              Backtick, Backtick, Backtick>>,
    visible |-> <<>>]}

Separators == {<<" ">>, <<" ", "p", "1", ".", "\n">>}

Items ==
  {[raw |-> m.raw \o p, visible |-> m.visible \o p] :
     m \in Markups, p \in Separators}
    \cup {[raw |-> p, visible |-> p] : p \in Separators}

\* Bold, italic, a link, inline code and a fenced block, a blank after each.
AllMarkup ==
  [k \in 1..5 |->
     LET m == CHOOSE x \in Markups :
                x.raw = CASE k = 1 -> <<"*", "*", "b", "*", "*">>
                          [] k = 2 -> <<"_", "i", "_">>
                          [] k = 3 -> <<"[", "t", "]", "(", "u", ".", "c", ")">>
                          [] k = 4 -> <<Backtick, "c", Backtick>>
                          [] k = 5 -> <<Backtick, Backtick, Backtick, "\n", "f",
                                        "\n", Backtick, Backtick, Backtick>>
     IN  [raw |-> m.raw \o <<" ">>, visible |-> m.visible \o <<" ">>]]

ItemSeqs == UNION {[1..n -> Items] : n \in 0..MaxPieces} \cup {AllMarkup}

Render(d) == Flatten([k \in DOMAIN d |-> d[k].raw], 1, Len(d))

Visible(d) == Flatten([k \in DOMAIN d |-> d[k].visible], 1, Len(d))

WellFormed == {[raw |-> Render(d), visible |-> Visible(d)] : d \in ItemSeqs}

WellFormedRaw == {r.raw : r \in WellFormed}

InitMarkdown ==
  /\ content \in MarkStrings \cup WellFormedRaw
  /\ pc = "ready"
  /\ locals = NotRun
  /\ quality = NotRun
  /\ calls = NoCalls
  /\ writer = NoWriter

SpecMarkdown == InitMarkdown /\ [][Next]_vars

(***************************************************************************)
(* Word inputs: every string of at most MaxWordLen letters of              *)
(* WordAlphabet, one word each, and the two-word sentence "Cats run.".     *)
(***************************************************************************)
MaxWordLen == 4

WordAlphabet == {"a", "e", "y", "l", "s", "d", "b"}

WordStrings == UNION {[1..n -> WordAlphabet] : n \in 0..MaxWordLen}

CatsRun == <<"C", "a", "t", "s", " ", "r", "u", "n", ".">>

InitWords ==
  /\ content \in WordStrings \cup {CatsRun}
  /\ pc = "ready"
  /\ locals = NotRun
  /\ quality = NotRun
  /\ calls = NoCalls
  /\ writer = NoWriter

SpecWords == InitWords /\ [][Next]_vars

(***************************************************************************)
(* Token inputs: every string of at most MaxWordLen characters of          *)
(* MixedAlphabet, one token of letters in both cases, a digit and a        *)
(* hyphen, and every string of at most MaxWordLen characters of            *)
(* SentenceAlphabet, letters among blanks and sentence terminators.        *)
(***************************************************************************)
MixedAlphabet == {"A", "a", "e", "b", "1", "-"}

MixedWords == UNION {[1..n -> MixedAlphabet] : n \in 0..MaxWordLen}

SentenceAlphabet == {"a", " ", ".", "?", "!"}

SentenceStrings == UNION {[1..n -> SentenceAlphabet] : n \in 0..MaxWordLen}

InitTokens ==
  /\ content \in MixedWords \cup SentenceStrings
  /\ pc = "ready"
  /\ locals = NotRun
  /\ quality = NotRun
  /\ calls = NoCalls
  /\ writer = NoWriter

SpecTokens == InitTokens /\ [][Next]_vars

(***************************************************************************)
(* Two invocations side by side.  The body runs in four steps, each        *)
(* reading the argument and the constants declared by the steps before     *)
(* it: the replacements of lines 59-65, the counts and quotients of lines  *)
(* 67-76, the scores of lines 79-85, and the rules and the return          *)
(* statement of lines 88-117.  The steps of the two interleave freely.     *)
(***************************************************************************)
MaxPairWords == 4

Invocations == 1..2

PairTexts ==
  UNION {{Body(kind, s, w) : kind \in 0..2, s \in 1..w} : w \in 1..MaxPairWords}

NoFrame ==
  [plainText |-> <<>>, syllables |-> 0, wordCount |-> 0, sentenceCount |-> 0,
   avgWordsPerSentence |-> Quotient(0, 1), avgSyllablesPerWord |-> Quotient(0, 1),
   fleschScore |-> Quotient(0, 1), readabilityScore |-> Quotient(0, 1),
   estimatedReadTime |-> Quotient(0, 1),
   uniquenessIndicators |-> <<>>, suggestedImprovements |-> <<>>]

\* The constants of the body declared once for the module: one binding
\* shared by every invocation.
FrameShared(i) == 1

\* The constants of the body are declared inside it: each invocation has
\* bindings of its own.
FrameOf(i) == i

InitPair ==
  /\ content = <<>>
  /\ pc = "idle"
  /\ locals = NotRun
  /\ quality = NotRun
  /\ calls \in {[arg |-> a, pc |-> [i \in Invocations |-> "called"],
                 frame |-> [i \in Invocations |-> NoFrame],
                 result |-> [i \in Invocations |-> NotRun]] :
                a \in [Invocations -> PairTexts]}
  /\ writer = NoWriter

\* Lines 59-65.
StripStep(i) ==
  /\ calls.pc[i] = "called"
  /\ calls' = [calls EXCEPT
       !.pc[i] = "stripped",
       !.frame[FrameOf(i)].plainText = StripMarkdown(calls.arg[i])]
  /\ UNCHANGED <<content, pc, locals, quality, writer>>

\* Lines 67-76.
CountStep(i) ==
  /\ calls.pc[i] = "stripped"
  /\ LET f == calls.frame[FrameOf(i)]
         words == SplitWords(f.plainText)
         sentences == SplitSentences(f.plainText)
         syllables == TotalSyllables(words)
         wordCount == Len(words)
         sentenceCount == SentenceCount(sentences)
     IN  calls' = [calls EXCEPT
           !.pc[i] = "counted",
           !.frame[FrameOf(i)] =
              [f EXCEPT
                 !.syllables = syllables,
                 !.wordCount = wordCount,
                 !.sentenceCount = sentenceCount,
                 !.avgWordsPerSentence =
                    AvgWordsPerSentence(wordCount, sentenceCount),
                 !.avgSyllablesPerWord =
                    AvgSyllablesPerWord(syllables, wordCount)]]
  /\ UNCHANGED <<content, pc, locals, quality, writer>>

\* Lines 79-85.
ScoreStep(i) ==
  /\ calls.pc[i] = "counted"
  /\ LET f == calls.frame[FrameOf(i)]
         fleschScore == FleschScore(f.avgWordsPerSentence, f.avgSyllablesPerWord)
     IN  calls' = [calls EXCEPT
           !.pc[i] = "scored",
           !.frame[FrameOf(i)] =
              [f EXCEPT
                 !.fleschScore = fleschScore,
                 !.readabilityScore = ClampScore(fleschScore),
                 !.estimatedReadTime = ReadTime(f.wordCount)]]
  /\ UNCHANGED <<content, pc, locals, quality, writer>>

\* Lines 88-117.
ReturnStep(i) ==
  /\ calls.pc[i] = "scored"
  /\ LET f == calls.frame[FrameOf(i)]
         g == [f EXCEPT
                 !.uniquenessIndicators =
                    UniquenessIndicators(calls.arg[i], f.wordCount,
                                         f.avgWordsPerSentence),
                 !.suggestedImprovements =
                    SuggestedImprovements(calls.arg[i], f.wordCount,
                                          f.avgWordsPerSentence,
                                          f.readabilityScore)]
     IN  calls' = [calls EXCEPT
           !.pc[i] = "returned",
           !.frame[FrameOf(i)] = g,
           !.result[i] = ContentQuality(g)]
  /\ UNCHANGED <<content, pc, locals, quality, writer>>

NextPair ==
  \E i \in Invocations :
    StripStep(i) \/ CountStep(i) \/ ScoreStep(i) \/ ReturnStep(i)

SpecPair == InitPair /\ [][NextPair]_vars

(***************************************************************************)
(* The article writer of the service: cleanContentArtifacts and the record *)
(* that writeContent returns.                                              *)
(***************************************************************************)

\* The em-dash and the bullet, which are no ASCII characters.
EmDash == "emdash"

Bullet == "bullet"

\* The characters that '.' does not match and after which '^' matches under
\* the m flag.
LineTerminators == {"\n", "\r"}

BulletMarks == {Bullet, "-", "*"}

\* The least index j >= i with s[j] \notin C, or Len(s) + 1 when there is none.
NextIndexOutside(s, i, C) ==
  LET hits == {j \in i..Len(s) : s[j] \notin C}
  IN  IF hits = {} THEN Len(s) + 1
      ELSE CHOOSE m \in hits : \A k \in hits : m <= k

\* phrase stands in s at index i, letters compared without their case when
\* ignoreCase holds (the i flag).
MatchesAt(s, i, phrase, ignoreCase) ==
  /\ i >= 1
  /\ i + Len(phrase) - 1 <= Len(s)
  /\ \A k \in DOMAIN phrase :
       IF ignoreCase
       THEN ToLowerCase(s[i + k - 1]) = ToLowerCase(phrase[k])
       ELSE s[i + k - 1] = phrase[k]

\* .+ from index i to the end of its line and then \n+; with enders, the
\* last character of the line is one of them and .+ stops before it.  The
\* index of the last newline of the match, or 0.
RestOfLineEnd(s, i, enders) ==
  LET e == NextIndex(s, i, LineTerminators) - 1
  IN  IF /\ e >= i
         /\ e + 1 <= Len(s)
         /\ s[e + 1] = "\n"
         /\ enders # {} => (e > i /\ s[e] \in enders)
      THEN NextIndexOutside(s, e + 1, {"\n"}) - 1
      ELSE 0

\* (Title|Article Title):
TitleLabels ==
  {<<"T", "i", "t", "l", "e", ":">>,
   <<"A", "r", "t", "i", "c", "l", "e", " ", "T", "i", "t", "l", "e", ":">>}

\* cleaned.replace(/^#?\s*(Title|Article Title):\s*.+\n+/, ''): at the start
\* of the text only.  The \s* after the colon gives back whitespace until
\* the rest of a line and its newline follow.
StripTitle(s) ==
  LET a == IF Len(s) >= 1 /\ s[1] = "#" THEN 2 ELSE 1
      b == NextIndexOutside(s, a, Whitespace)
      labels == {l \in TitleLabels : MatchesAt(s, b, l, FALSE)}
  IN  IF labels = {} THEN s
      ELSE LET c == b + Len(CHOOSE l \in labels : TRUE)
               w == NextIndexOutside(s, c, Whitespace)
               starts == {k \in c..w : RestOfLineEnd(s, k, {}) # 0}
           IN  IF starts = {} THEN s
               ELSE LET k == CHOOSE x \in starts : \A y \in starts : x >= y
                    IN  SubSeq(s, RestOfLineEnd(s, k, {}) + 1, Len(s))

IntroPhrases ==
  {<<"H", "e", "r", "e", " ", "i", "s", " ", "a">>,
   <<"H", "e", "r", "e", " ", "i", "s", " ", "t", "h", "e">>,
   <<"H", "e", "r", "e", "'", "s", " ", "a">>,
   <<"I", "n", " ", "t", "h", "i", "s", " ", "a", "r", "t", "i", "c", "l",
     "e">>,
   <<"I", "n", " ", "t", "o", "d", "a", "y", "'", "s">>,
   <<"I", "n", " ", "t", "h", "e", " ", "l", "a", "n", "d", "s", "c", "a",
     "p", "e">>,
   <<"I", "t", " ", "i", "s", " ", "i", "m", "p", "o", "r", "t", "a", "n",
     "t", " ", "t", "o">>,
   <<"W", "h", "e", "n", " ", "i", "t", " ", "c", "o", "m", "e", "s", " ",
     "t", "o">>}

VaguePhrases ==
  {<<"I", "n", " ", "t", "h", "e", " ", "r", "a", "p", "i", "d", "l", "y",
     " ", "e", "v", "o", "l", "v", "i", "n", "g">>,
   <<"I", "n", " ", "t", "o", "d", "a", "y", "'", "s", " ", "d", "i", "g",
     "i", "t", "a", "l">>,
   <<"A", "s", " ", "w", "e", " ", "n", "a", "v", "i", "g", "a", "t", "e">>,
   <<"I", "t", " ", "h", "a", "s", " ", "b", "e", "c", "o", "m", "e", " ",
     "i", "n", "c", "r", "e", "a", "s", "i", "n", "g", "l", "y">>}

\* A replacement /^(phrase|...).+ ... \n+/gi: without the m flag '^' is the
\* start of the text, so there is one match at most.
StripOpening(s, phrases, enders) ==
  LET found == {p \in phrases : MatchesAt(s, 1, p, TRUE)
                                  /\ RestOfLineEnd(s, Len(p) + 1, enders) # 0}
  IN  IF found = {} THEN s
      ELSE LET p == CHOOSE x \in found : TRUE
           IN  SubSeq(s, RestOfLineEnd(s, Len(p) + 1, enders) + 1, Len(s))

\* cleaned.replace(/^(Here is a|...|When it comes to).+(:|\.)\n+/gi, '')
StripIntro(s) == StripOpening(s, IntroPhrases, {":", "."})

\* cleaned.replace(/^(In the rapidly evolving|...).+\n+/gi, '')
StripVagueOpening(s) == StripOpening(s, VaguePhrases, {})

\* cleaned.replace(/—/g, ' - ')
ReplaceEmDashes(s) ==
  Flatten([k \in DOMAIN s |-> IF s[k] = EmDash THEN <<" ", "-", " ">> ELSE <<s[k]>>],
          1, Len(s))

\* /^[\s]*[•\-*]\s+/ tried at the line start p: the whitespace, one bullet
\* mark and the whitespace after it.  The index of the last character of
\* the match, or 0.
BulletMatchEnd(s, p) ==
  LET b == NextIndexOutside(s, p, Whitespace)
  IN  IF b + 1 <= Len(s) /\ s[b] \in BulletMarks /\ s[b + 1] \in Whitespace
      THEN NextIndexOutside(s, b + 1, Whitespace) - 1
      ELSE 0

\* The scan of the g and m flags: from index i on, each line start is tried
\* and the scan resumes after a match.
RECURSIVE StripBulletsFrom(_, _)
StripBulletsFrom(s, i) ==
  IF i > Len(s) THEN <<>>
  ELSE LET p == IF i = 1 \/ s[i - 1] \in LineTerminators THEN i
                ELSE NextIndex(s, i, LineTerminators) + 1
       IN  IF p > Len(s) THEN SubSeq(s, i, Len(s))
           ELSE LET e == BulletMatchEnd(s, p)
                IN  IF e = 0
                    THEN SubSeq(s, i, p) \o StripBulletsFrom(s, p + 1)
                    ELSE SubSeq(s, i, p - 1) \o StripBulletsFrom(s, e + 1)

\* cleaned.replace(/^[\s]*[•\-*]\s+/gm, '')
StripBullets(s) == StripBulletsFrom(s, 1)

\* cleaned.trim()
Trim(s) ==
  LET a == NextIndexOutside(s, 1, Whitespace)
      kept == {j \in DOMAIN s : s[j] \notin Whitespace}
  IN  IF kept = {} THEN <<>>
      ELSE SubSeq(s, a, CHOOSE m \in kept : \A k \in kept : m >= k)

\* The six steps of cleanContentArtifacts in their order.
cleanContentArtifacts(s) ==
  Trim(StripBullets(ReplaceEmDashes(StripVagueOpening(StripIntro(StripTitle(s))))))

\* The return statement of writeContent, lines 509-530: content is
\* finalContent, wordCount is quality.wordCount.  The fields copied unread
\* from the arguments and the answer (platform, tone, format, image,
\* sources, keywords, snippets) and the clock are left out.
ArticleRecord(idea, finalContent, measured) ==
  [id |-> idea.id, title |-> idea.title, content |-> finalContent,
   wordCount |-> measured.wordCount, quality |-> measured]

\* const quality = calculateContentQuality(finalContent), and the return.
MeasuredArticle(idea, finalContent) ==
  ArticleRecord(idea, finalContent, ContentQuality(Locals(finalContent)))

\* The quality measured on the answer as received, before it is cleaned.
writeContentFromRaw(idea, raw) ==
  ArticleRecord(idea, cleanContentArtifacts(raw), ContentQuality(Locals(raw)))

\* The record that writeContent returns for an idea and the text of the
\* model's answer: finalContent = cleanContentArtifacts(result.content),
\* quality = calculateContentQuality(finalContent).
writeContent(idea, raw) == MeasuredArticle(idea, cleanContentArtifacts(raw))

(***************************************************************************)
(* The ContentWriter component: its state, the state of App that its       *)
(* callbacks write, and the run of handleProcessQueue, which waits for     *)
(* writeContent once per pending idea.  The queue holds at most MaxQueue   *)
(* ideas with distinct ids; the results start empty or from the cache of   *)
(* the session.                                                            *)
(***************************************************************************)
MaxQueue == 2

IdeaIds == 1..MaxQueue

TitleOf(i) == <<"t", i>>

Idea(i) == [id |-> i, title |-> TitleOf(i)]

\* The sequences of at most MaxQueue ideas without a repeated id.
Queues ==
  {q \in UNION {[1..n -> {Idea(i) : i \in IdeaIds}] : n \in 0..MaxQueue} :
     \A j, k \in DOMAIN q : j # k => q[j].id # q[k].id}

AllGenerated ==
  [message |-> "All selected ideas have already been generated.", title |-> <<>>]

\* `Stopped at "${idea.title}". Please try again.`
StoppedAt(title) ==
  [message |-> "Stopped at (title). Please try again.", title |-> title]

\* The answers of the model in a run of the queue: one that the cleaning
\* changes and one that it leaves alone.
WriterAnswers == {<<"-", " ", "a", " ", "b">>, <<"a", ".">>}

\* The texts typed into the editor.
EditedContents == {<<"a", " ", "b", " ", "c">>}

\* The results found in the cache of the session: none, or one of idea 1.
CachedResults == {<<>>, <<writeContent(Idea(1), <<"a", ".">>)>>}

InitWriter ==
  /\ content = <<>>
  /\ pc = "idle"
  /\ locals = NotRun
  /\ quality = NotRun
  /\ calls = NoCalls
  /\ writer \in {WriterOf(q, r) : q \in Queues, r \in CachedResults}

HasResult(results, id) == \E k \in DOMAIN results : results[k].id = id

\* The queue without the filter on the results.
PendingIdeasUnfiltered(queue, results) == queue

\* queue.filter(idea => !results.some(r => r.id === idea.id))
PendingIdeas(queue, results) ==
  SelectSeq(queue, LAMBDA idea : ~HasResult(results, idea.id))

Awaiting == writer.index > 0

\* The run after its wait, when the loop has another idea or has none: the
\* next setCurrentProcessingId and wait, or lines 119-120.
ContinueFrom(w) ==
  IF w.index < Len(w.pendingIdeas)
  THEN [w EXCEPT !.index = w.index + 1,
                 !.currentProcessingId = w.pendingIdeas[w.index + 1].id]
  ELSE [w EXCEPT !.index = 0,
                 !.pendingIdeas = <<>>,
                 !.currentProcessingId = NullId,
                 !.processing = FALSE]

\* handleProcessQueue from its call to its first wait, or to its return
\* when no idea is pending.  The button that calls it is disabled while
\* processing.
handleProcessQueue ==
  /\ ~writer.processing
  /\ LET pendingIdeas == PendingIdeas(writer.queue, writer.results)
     IN  writer' =
           IF Len(pendingIdeas) = 0
           THEN [writer EXCEPT !.error = AllGenerated, !.processing = FALSE]
           ELSE [writer EXCEPT
                   !.processing = TRUE,
                   !.error = NoError,
                   !.pendingIdeas = pendingIdeas,
                   !.index = 1,
                   !.currentProcessingId = pendingIdeas[1].id]
  /\ UNCHANGED <<content, pc, locals, quality, calls>>

\* savePastTopic(title) of App
savePastTopic(pastTopics, title) ==
  IF \E k \in DOMAIN pastTopics : pastTopics[k] = title THEN pastTopics
  ELSE Append(pastTopics, title)

\* Lines 98-110 on the article that writeContent returned for an idea:
\* setResults with onComplete, setExpandedResults, setShowQualityPanel,
\* onArchive.
Completed(w, idea, raw, article) ==
  [w EXCEPT
     !.response = raw,
     !.results = Append(w.results, article),
     !.generatedHistory = Append(w.generatedHistory, article),
     !.expandedResults = w.expandedResults \cup {article.id},
     !.showQualityPanel = article.id,
     !.pastTopics = savePastTopic(w.pastTopics, idea.title)]

\* writeContent has returned the article of the idea waited for, then the
\* loop goes on.
Resolved(raw) ==
  /\ Awaiting
  /\ writer' =
       ContinueFrom(
         Completed(writer, writer.pendingIdeas[writer.index], raw,
                   writeContent(writer.pendingIdeas[writer.index], raw)))
  /\ UNCHANGED <<content, pc, locals, quality, calls>>

writeContentResolved == \E raw \in WriterAnswers : Resolved(raw)

\* A catch without its break: the error is set and the loop goes on.
writeContentSkipped ==
  /\ Awaiting
  /\ writer' =
       ContinueFrom(
         [writer EXCEPT
            !.error = StoppedAt(writer.pendingIdeas[writer.index].title)])
  /\ UNCHANGED <<content, pc, locals, quality, calls>>

\* writeContent has thrown: lines 112-116, then lines 119-120.
writeContentRejected ==
  /\ Awaiting
  /\ writer' =
       [writer EXCEPT
          !.error = StoppedAt(writer.pendingIdeas[writer.index].title),
          !.index = 0,
          !.pendingIdeas = <<>>,
          !.currentProcessingId = NullId,
          !.processing = FALSE]
  /\ UNCHANGED <<content, pc, locals, quality, calls>>

\* The update with the measures taken again on the new text.
UpdatedResultsMeasured(results, id, newContent) ==
  [k \in DOMAIN results |->
     IF results[k].id = id
     THEN [results[k] EXCEPT
             !.content = newContent,
             !.quality = ContentQuality(Locals(newContent)),
             !.wordCount = ContentQuality(Locals(newContent)).wordCount]
     ELSE results[k]]

\* prev.map(r => r.id === id ? { ...r, content: newContent } : r)
UpdatedResults(results, id, newContent) ==
  [k \in DOMAIN results |->
     IF results[k].id = id THEN [results[k] EXCEPT !.content = newContent]
     ELSE results[k]]

handleContentUpdate(id, newContent) ==
  /\ writer' =
       [writer EXCEPT !.results = UpdatedResults(writer.results, id, newContent)]
  /\ UNCHANGED <<content, pc, locals, quality, calls>>

NextWriter ==
  \/ handleProcessQueue
  \/ writeContentResolved
  \/ writeContentRejected
  \/ \E id \in IdeaIds \cup {MaxQueue + 1}, newContent \in EditedContents :
       handleContentUpdate(id, newContent)

SpecWriter == InitWriter /\ [][NextWriter]_vars

(***************************************************************************)
(* The writer on one idea, over answers of the model that the steps of     *)
(* cleanContentArtifacts act on: an opening line and a body.               *)
(***************************************************************************)
Openers ==
  {<<>>,
   <<"T", "i", "t", "l", "e", ":", " ", "a", "\n">>,
   <<"#", " ", "A", "r", "t", "i", "c", "l", "e", " ", "T", "i", "t", "l",
     "e", ":", "\n", "\n", "a", "\n">>,
   <<"H", "e", "r", "e", " ", "i", "s", " ", "a", " ", "a", ".", "\n">>,
   <<"i", "n", " ", "t", "o", "d", "a", "y", "'", "s", " ", "a", ":", "\n",
     "\n">>,
   <<"A", "s", " ", "w", "e", " ", "n", "a", "v", "i", "g", "a", "t", "e",
     " ", "a", "\n">>,
   <<"H", "e", "r", "e", " ", "i", "s", " ", "a", " ", "a", "\n">>}

Bodies ==
  {<<"a", " ", "b", ".">>,
   <<"-", " ", "a", " ", "b", ".", "\n", "*", " ", "a">>,
   <<"a", EmDash, "b", ".">>,
   <<" ", "a", " ", "\n">>,
   <<"#", "#", " ", "a", "\n", Bullet, " ", "a", ".", "\n", "-", "b">>}

RawContents == {o \o b : o \in Openers, b \in Bodies}

InitArticle ==
  /\ content = <<>>
  /\ pc = "idle"
  /\ locals = NotRun
  /\ quality = NotRun
  /\ calls = NoCalls
  /\ writer \in {WriterOf(<<Idea(i)>>, <<>>) : i \in IdeaIds}

articleReturned == \E raw \in RawContents : Resolved(raw)

NextArticle ==
  \/ handleProcessQueue
  \/ articleReturned
  \/ writeContentRejected

SpecArticle == InitArticle /\ [][NextArticle]_vars

(***************************************************************************)
(* Properties of the returned record.                                      *)
(***************************************************************************)
Returned == pc = "returned"

Has(list, text) == \E j \in DOMAIN list : list[j] = text

\* list holds exactly the texts whose condition holds, each once, in the
\* order of texts.
IsOrderedSublist(list, texts, conds) ==
  LET RuleIndex(text) == CHOOSE i \in DOMAIN texts : texts[i] = text
  IN  /\ \A j \in DOMAIN list :
           \E i \in DOMAIN texts : list[j] = texts[i] /\ conds[i]
      /\ \A i \in DOMAIN texts : conds[i] => Has(list, texts[i])
      /\ \A j, k \in DOMAIN list :
           j < k => RuleIndex(list[j]) < RuleIndex(list[k])

\* 206.835 - 1.015 x - 84.6 y >= c / 2 for finite fractions x and y and a
\* whole number c.  Times 200 this is 203 x + 16920 y <= 41367 - 100 c; the
\* whole parts of 203 x and 16920 y are moved to the right-hand side.
FleschAtLeastHalves(x, y, c) ==
  LET q1 == (203 * x.num) \div x.den
      r1 == (203 * x.num) % x.den
      q2 == (16920 * y.num) \div y.den
      r2 == (16920 * y.num) % y.den
      slack == 41367 - 100 * c - q1 - q2
  IN  \/ slack >= 2
      \/ slack >= 0 /\ r1 * y.den + r2 * x.den <= slack * x.den * y.den

\* k is the nearest integer to 206.835 - 1.015 x - 84.6 y, a tie going up.
IsFleschRounded(k, x, y) ==
  /\ FleschAtLeastHalves(x, y, 2 * k - 1)
  /\ ~FleschAtLeastHalves(x, y, 2 * k + 1)

WordsPerSentence == Quotient(quality.wordCount, quality.sentenceCount)

SyllablesPerWord == Quotient(locals.syllables, Max(quality.wordCount, 1))

\* C1: for every input the returned readabilityScore is an integer between
\* 0 and 100.
C1_ScoreInRange ==
  Returned =>
    /\ quality.readabilityScore.den = 1
    /\ quality.readabilityScore.num \in 0..100

\* A raw Flesch value below zero was returned as 0.
C1_Witness ==
  /\ Returned
  /\ LessThan(locals.fleschScore, 0)
  /\ quality.readabilityScore = Quotient(0, 1)

\* C2: every input, the empty, the whitespace-only and the one without a
\* sentence terminator included, returns a well-formed record with the floor
\* values, and neither division has a zero divisor.
C2_Total ==
  Returned =>
    /\ locals.avgWordsPerSentence.den >= 1
    /\ locals.avgSyllablesPerWord.den >= 1
    /\ DOMAIN quality =
         {"readabilityScore", "estimatedReadTime", "wordCount", "sentenceCount",
          "avgWordsPerSentence", "uniquenessIndicators", "suggestedImprovements"}
    /\ IsFiniteNumber(quality.readabilityScore)
    /\ IsFiniteNumber(quality.avgWordsPerSentence)
    /\ quality.wordCount \in Nat
    /\ quality.sentenceCount \in Nat
    /\ quality.estimatedReadTime \in Nat
    /\ IsBlank(content) =>
         /\ quality.wordCount = 0
         /\ quality.sentenceCount = 1
         /\ quality.avgWordsPerSentence.num = 0
         /\ quality.estimatedReadTime = 0
    /\ (\A i \in DOMAIN content : content[i] \notin Terminators) =>
         quality.sentenceCount = 1

\* A whitespace-only input has returned.
C2_Witness ==
  /\ Returned
  /\ content # <<>>
  /\ IsBlank(content)
  /\ quality.wordCount = 0

\* C3: readabilityScore is 206.835 - 1.015 (wordCount / sentenceCount)
\* - 84.6 (syllables / max(wordCount, 1)) rounded to the nearest integer and
\* clamped to 0..100.
C3_FleschFormula ==
  Returned =>
    LET k == quality.readabilityScore.num
    IN  /\ quality.readabilityScore.den = 1
        /\ k \in 0..100
        /\ k > 0 => FleschAtLeastHalves(WordsPerSentence, SyllablesPerWord, 2 * k - 1)
        /\ k < 100 => ~FleschAtLeastHalves(WordsPerSentence, SyllablesPerWord, 2 * k + 1)

\* An unclamped score of a text whose words per sentence is no whole number.
C3_Witness ==
  /\ Returned
  /\ quality.readabilityScore.num \in 1..99
  /\ quality.wordCount % quality.sentenceCount # 0
  /\ locals.syllables > quality.wordCount

\* C4: the empty string returns wordCount 0, sentenceCount 1,
\* avgWordsPerSentence 0, estimatedReadTime 0 and readabilityScore 100.
C4_EmptyString ==
  (Returned /\ content = <<>>) =>
    /\ quality.wordCount = 0
    /\ quality.sentenceCount = 1
    /\ quality.avgWordsPerSentence = Quotient(0, 10)
    /\ quality.estimatedReadTime = 0
    /\ quality.readabilityScore = Quotient(100, 1)

\* The empty string has returned.
C4_Witness == Returned /\ content = <<>> /\ locals.plainText = <<>>

\* C5: every returned record has sentenceCount >= 1, wordCount >= 0 and
\* estimatedReadTime >= 0.
C5_CountFloors ==
  Returned =>
    /\ quality.sentenceCount >= 1
    /\ quality.wordCount >= 0
    /\ quality.estimatedReadTime >= 0

\* A word without a sentence: the count of zero sentences is raised to 1.
C5_Witness ==
  /\ Returned
  /\ content = <<".">>
  /\ quality.wordCount = 1
  /\ quality.sentenceCount = 1

\* C6: estimatedReadTime is the ceiling of wordCount / 200: 0, 1, 1, 2, 2 for
\* 0, 1, 200, 201, 400 words, zero only without a word.
C6_ReadTimeCeiling ==
  Returned =>
    LET w == quality.wordCount
        m == quality.estimatedReadTime
    IN  /\ 200 * (m - 1) < w
        /\ w <= 200 * m
        /\ w > 0 => m >= 1
        /\ m = 0 <=> w = 0
        /\ w = 0 => m = 0
        /\ w \in {1, 200} => m = 1
        /\ w \in {201, 400} => m = 2

\* 201 words take a second minute.
C6_Witness ==
  /\ Returned
  /\ quality.wordCount = 201
  /\ quality.estimatedReadTime = 2

StrengthTexts ==
  <<"Long-form content", "Well-structured with headings",
    "Numbered points included", "Clear, concise sentences">>

ImprovementTexts ==
  <<"Consider breaking up long sentences for better readability",
    "Use simpler words to improve accessibility",
    "Consider expanding content for more depth",
    "Add section headings to improve structure">>

ContainsDoubleHash ==
  \E i \in 1..(Len(content) - 1) : content[i] = "#" /\ content[i + 1] = "#"

\* C7: uniquenessIndicators is the sub-list, in rule order, of the four
\* strengths whose conditions hold: more than 800 words, "##" in the original
\* text, at least 5 digit-dot matches in the original text, fewer than 20
\* words per sentence.
C7_Strengths ==
  Returned =>
    IsOrderedSublist(quality.uniquenessIndicators, StrengthTexts,
      <<quality.wordCount > 800,
        ContainsDoubleHash,
        NumberedMatches(content) >= 5,
        quality.wordCount < 20 * quality.sentenceCount>>)

\* The first three rules fire and the fourth does not.
C7_Witness ==
  /\ Returned
  /\ quality.uniquenessIndicators =
       <<"Long-form content", "Well-structured with headings",
         "Numbered points included">>

\* C8: suggestedImprovements is the sub-list, in rule order, of the four
\* suggestions whose conditions hold: more than 25 words per sentence, a
\* clamped score below 50, fewer than 500 words, no "##" in the original text.
C8_Improvements ==
  Returned =>
    IsOrderedSublist(quality.suggestedImprovements, ImprovementTexts,
      <<quality.wordCount > 25 * quality.sentenceCount,
        quality.readabilityScore.num < 50,
        quality.wordCount < 500,
        ~ContainsDoubleHash>>)

\* The second and the third rule fire, the first and the fourth do not.
C8_Witness ==
  /\ Returned
  /\ quality.suggestedImprovements =
       <<"Use simpler words to improve accessibility",
         "Consider expanding content for more depth">>

\* C9 as stated: the two sentence-length rules agree with comparing the
\* returned, rounded avgWordsPerSentence against 20 and 25.
C9_RulesReadRoundedValue ==
  Returned =>
    /\ Has(quality.uniquenessIndicators, StrengthTexts[4])
         <=> LessThan(quality.avgWordsPerSentence, 20)
    /\ Has(quality.suggestedImprovements, ImprovementTexts[1])
         <=> GreaterThan(quality.avgWordsPerSentence, 25)

\* C9 amended: the two sentence-length rules are evaluated on the unrounded
\* quotient wordCount / sentenceCount, so they agree with comparing wordCount
\* against 20 and 25 times sentenceCount.
C9_RulesReadQuotient ==
  Returned =>
    /\ Has(quality.uniquenessIndicators, StrengthTexts[4])
         <=> quality.wordCount < 20 * quality.sentenceCount
    /\ Has(quality.suggestedImprovements, ImprovementTexts[1])
         <=> quality.wordCount > 25 * quality.sentenceCount

\* The caller is told 20.0 words per sentence, rounded up from a quotient
\* that is no tie, and "Clear, concise sentences".
C9_Witness ==
  /\ Returned
  /\ quality.avgWordsPerSentence = Quotient(200, 10)
  /\ (20 * quality.wordCount) % quality.sentenceCount # 0
  /\ Has(quality.uniquenessIndicators, StrengthTexts[4])

\* C10: the returned avgWordsPerSentence is wordCount / sentenceCount rounded
\* to the nearest tenth, and the score before clamping is rounded from the
\* formula over the unrounded quotient.
C10_RoundedFieldUnroundedScore ==
  Returned =>
    LET tenths == quality.avgWordsPerSentence.num
    IN  /\ quality.avgWordsPerSentence.den = 10
        /\ (2 * tenths - 1) * quality.sentenceCount <= 20 * quality.wordCount
        /\ 20 * quality.wordCount < (2 * tenths + 1) * quality.sentenceCount
        /\ locals.fleschScore.den = 1
        /\ IsFleschRounded(locals.fleschScore.num, WordsPerSentence, SyllablesPerWord)

\* The returned quotient is rounded, and the score is not the one the
\* rounded quotient gives.
C10_Witness ==
  /\ Returned
  /\ quality.avgWordsPerSentence.num * quality.sentenceCount # 10 * quality.wordCount
  /\ ~IsFleschRounded(locals.fleschScore.num, quality.avgWordsPerSentence,
                      SyllablesPerWord)

(***************************************************************************)
(* Properties of two invocations side by side.                             *)
(***************************************************************************)
HasReturned(i) == calls.pc[i] = "returned"

Markers == {"#", "[", Backtick}

Contains(s, C) == \E k \in DOMAIN s : s[k] \in C

\* C12 as stated: for every input, stripping the stripped text again
\* changes nothing.
C12_Idempotent ==
  Returned => StripMarkdown(locals.plainText) = locals.plainText

\* C12: stripping the stripped text again changes nothing whenever the
\* stripped text holds no '#', no '[' and no grave accent; a stripped text
\* never holds '*' or '_'.
C12_IdempotentWithoutMarkers ==
  Returned =>
    /\ ~Contains(locals.plainText, Emphasis)
    /\ ~Contains(locals.plainText, Markers) =>
         StripMarkdown(locals.plainText) = locals.plainText

\* Markup was stripped, no marker is left, and a second pass changes nothing.
C12_Witness ==
  /\ Returned
  /\ Contains(content, Emphasis) /\ Contains(content, Markers)
  /\ locals.plainText # content
  /\ locals.plainText # <<>>
  /\ ~Contains(locals.plainText, Markers)
  /\ StripMarkdown(locals.plainText) = locals.plainText

(***************************************************************************)
(* Monotonicity of the score, over two returned invocations.               *)
(***************************************************************************)
\* Fractions with positive denominators.
FracLess(x, y) == x.num * y.den < y.num * x.den

FracSame(x, y) == x.num * y.den = y.num * x.den

\* y exceeds x by at least n / d.
FracLessBy(x, y, n, d) ==
  (y.num * x.den - x.num * y.den) * d >= n * x.den * y.den

WordsPerSentenceOf(i) ==
  Quotient(calls.result[i].wordCount, calls.result[i].sentenceCount)

SyllablesPerWordOf(i) ==
  Quotient(calls.frame[i].syllables, Max(calls.result[i].wordCount, 1))

ScoreOf(i) == calls.result[i].readabilityScore.num

\* The raw rounded score lies inside the range that clamping leaves alone.
Unclamped(i) == calls.frame[i].fleschScore.num \in 0..100

BothUnclamped(i, j) ==
  HasReturned(i) /\ HasReturned(j) /\ Unclamped(i) /\ Unclamped(j)

\* C13 as stated: with both raw scores unclamped, the same syllables per
\* word and strictly more words per sentence give a strictly smaller score,
\* and the same words per sentence and strictly more syllables per word give
\* a strictly smaller score.
C13_StrictlyDecreasing ==
  \A i, j \in Invocations :
    BothUnclamped(i, j) =>
      /\ FracSame(SyllablesPerWordOf(i), SyllablesPerWordOf(j))
           /\ FracLess(WordsPerSentenceOf(i), WordsPerSentenceOf(j))
           => ScoreOf(j) < ScoreOf(i)
      /\ FracSame(WordsPerSentenceOf(i), WordsPerSentenceOf(j))
           /\ FracLess(SyllablesPerWordOf(i), SyllablesPerWordOf(j))
           => ScoreOf(j) < ScoreOf(i)

\* C13: with both raw scores unclamped, the same syllables per word and
\* strictly more words per sentence give a score that is not larger, and
\* strictly smaller when the words per sentence differ by at least 1; the
\* same words per sentence and strictly more syllables per word give a score
\* that is not larger, and strictly smaller when the syllables per word
\* differ by at least 1/84.
C13_NotIncreasing ==
  \A i, j \in Invocations :
    BothUnclamped(i, j) =>
      /\ FracSame(SyllablesPerWordOf(i), SyllablesPerWordOf(j))
           /\ FracLess(WordsPerSentenceOf(i), WordsPerSentenceOf(j))
           => /\ ScoreOf(j) <= ScoreOf(i)
              /\ FracLessBy(WordsPerSentenceOf(i), WordsPerSentenceOf(j), 1, 1)
                   => ScoreOf(j) < ScoreOf(i)
      /\ FracSame(WordsPerSentenceOf(i), WordsPerSentenceOf(j))
           /\ FracLess(SyllablesPerWordOf(i), SyllablesPerWordOf(j))
           => /\ ScoreOf(j) <= ScoreOf(i)
              /\ FracLessBy(SyllablesPerWordOf(i), SyllablesPerWordOf(j), 1, 84)
                   => ScoreOf(j) < ScoreOf(i)

\* Two unclamped texts of the same syllables per word: the one of more words
\* per sentence has the same score after rounding.
C13_Witness ==
  /\ BothUnclamped(1, 2)
  /\ FracSame(SyllablesPerWordOf(1), SyllablesPerWordOf(2))
  /\ FracLess(WordsPerSentenceOf(1), WordsPerSentenceOf(2))
  /\ ScoreOf(2) = ScoreOf(1)

(***************************************************************************)
(* Scenarios of the returned record.                                       *)
(***************************************************************************)
\* C14: an input of more than 800 words that contains "##", has at least
\* five digit-dot matches and fewer than 20 words per sentence returns all
\* four strengths, in rule order; when its readabilityScore is at least 50
\* as well, suggestedImprovements is empty.
C14_AllStrengths ==
  /\ Returned
  /\ quality.wordCount > 800
  /\ ContainsDoubleHash
  /\ NumberedMatches(content) >= 5
  /\ quality.wordCount < 20 * quality.sentenceCount
  => /\ quality.uniquenessIndicators = StrengthTexts
     /\ quality.readabilityScore.num >= 50 => quality.suggestedImprovements = <<>>

\* Such an input was analysed: four strengths and no improvement.
C14_Witness ==
  /\ Returned
  /\ quality.wordCount > 800
  /\ ContainsDoubleHash
  /\ NumberedMatches(content) >= 5
  /\ quality.wordCount < 20 * quality.sentenceCount
  /\ quality.readabilityScore.num >= 50
  /\ Len(quality.uniquenessIndicators) = 4
  /\ quality.suggestedImprovements = <<>>

\* C15: the input "Cats run." has wordCount 2, sentenceCount 1, 2 syllables
\* in all, 2 words per sentence, the raw rounded score 120 and, clamped, the
\* readabilityScore 100.
C15_CatsRun ==
  Returned /\ content = CatsRun =>
    /\ quality.wordCount = 2
    /\ quality.sentenceCount = 1
    /\ locals.syllables = 2
    /\ locals.avgWordsPerSentence = Quotient(2, 1)
    /\ quality.avgWordsPerSentence = Quotient(20, 10)
    /\ locals.fleschScore = Quotient(120, 1)
    /\ quality.readabilityScore = Quotient(100, 1)

\* "Cats run." was analysed and the score was clamped to 100.
C15_Witness ==
  /\ Returned
  /\ content = CatsRun
  /\ locals.plainText = CatsRun
  /\ locals.fleschScore.num > 100
  /\ quality.readabilityScore.num = 100

MarkupCharacters == {"*", "_", "[", "]", "(", ")", Backtick}

C17_StepsInOrder ==
  Returned =>
    LET headingsGone == StripHeadings(content)
        doublesGone == StripDoubleEmphasis(headingsGone)
        singlesGone == StripSingleEmphasis(doublesGone)
        linksReplaced == ReplaceLinks(singlesGone)
        fencesGone == StripFences(linksReplaced)
    IN  locals.plainText = StripInlineCode(fencesGone)

\* An input on which the order matters: removing inline spans before fenced
\* blocks would leave grave accents behind.
C17_Witness ==
  /\ Returned
  /\ content \in WellFormedRaw
  /\ ~Contains(locals.plainText, {Backtick})
  /\ Contains(StripFences(StripInlineCode(content)), {Backtick})

Only(s, C) == SelectSeq(s, LAMBDA ch : ch \in C)

Except(s, C) == SelectSeq(s, LAMBDA ch : ch \notin C)

\* C18 as stated: the heading step removes only '#' characters and the
\* space after them, so every other character of the input is kept by it,
\* in order; and the newlines, punctuation marks and digits of an input
\* without code and links are those of its plain text, in order.
C18_OnlyMarkersRemoved ==
  Returned =>
    /\ Except(StripHeadings(content), {"#", " "}) = Except(content, {"#", " "})
    /\ ~Contains(content, {Backtick, "["}) =>
         Only(locals.plainText, {"\n", ".", "1"}) = Only(content, {"\n", ".", "1"})

(***************************************************************************)
(* Properties of countSyllables, on inputs of one word of lower-case       *)
(* letters.                                                                *)
(***************************************************************************)
IsLongWord == Returned /\ content \in WordStrings /\ Len(content) > 3

EndsWith(w, tail) ==
  /\ Len(w) >= Len(tail)
  /\ SubSeq(w, Len(w) - Len(tail) + 1, Len(w)) = tail

\* The letter of w that stands k places before its end is outside C.
LetterBeforeOutside(w, k, C) == Len(w) > k /\ w[Len(w) - k] \notin C

\* The count of what is left of w once its last n letters are removed and
\* then a leading 'y'.
CountWithout(w, n) ==
  LET groups == VowelGroupsFrom(StripLeadingY(SubSeq(w, 1, Len(w) - n)), 1)
  IN  IF groups > 0 THEN groups ELSE 1

\* C19 as stated: a final "es" or "ed" goes only after a letter outside
\* {a,e,i,o,u,y}, a final 'e' goes exactly after a letter outside that set,
\* then a leading 'y' goes, and the vowel groups of the rest are counted.
C19_SuffixAfterNonVowel ==
  IsLongWord =>
    locals.syllables =
      CountWithout(content,
        IF (EndsWith(content, <<"e", "s">>) \/ EndsWith(content, <<"e", "d">>))
             /\ LetterBeforeOutside(content, 2, Vowels)
        THEN 2
        ELSE IF EndsWith(content, <<"e">>) /\ LetterBeforeOutside(content, 1, Vowels)
        THEN 1
        ELSE 0)

\* C19: for a cleaned word of more than 3 letters, a final "es" goes,
\* with the letter before it, only when that letter is outside
\* {l,a,e,i,o,u,y}; otherwise a final "ed" goes whatever stands before it;
\* otherwise a final 'e' goes, with the letter before it, exactly when that
\* letter is outside {l,a,e,i,o,u,y}; then a leading 'y' goes, and the
\* vowel groups of the rest are counted.
C19_SuffixAfterNonVowelNorL ==
  IsLongWord =>
    locals.syllables =
      CountWithout(content,
        IF EndsWith(content, <<"e", "s">>)
             /\ LetterBeforeOutside(content, 2, Vowels \cup {"l"})
        THEN 3
        ELSE IF EndsWith(content, <<"e", "d">>)
        THEN 2
        ELSE IF EndsWith(content, <<"e">>)
                  /\ LetterBeforeOutside(content, 1, Vowels \cup {"l"})
        THEN 2
        ELSE 0)

\* "able" keeps its final "le" and counts 2.
C19_Witness ==
  /\ IsLongWord
  /\ content = <<"a", "b", "l", "e">>
  /\ locals.syllables = 2

\* The number of groups of one or two vowels in w, taken from the left: in
\* each maximal run of vowels, the letters at an even distance from the
\* start of the run begin a group, so a run of k letters holds
\* ceil(k / 2) groups.
GroupsByRuns(w) ==
  LET RunStart(i) ==
        CHOOSE j \in 1..i :
          /\ \A k \in j..i : w[k] \in Vowels
          /\ j = 1 \/ w[j - 1] \notin Vowels
  IN  Cardinality({i \in DOMAIN w : w[i] \in Vowels /\ (i - RunStart(i)) % 2 = 0})

\* C20: once the suffix and the leading 'y' are removed, the count of a
\* word of more than 3 letters is the number of groups of one or two
\* consecutive vowels taken from the left, a run of k vowels holding
\* ceil(k / 2) of them, and it is 1 when no vowel is left.
C20_VowelGroups ==
  IsLongWord =>
    LET rest == StripLeadingY(StripSuffix(content))
    IN  locals.syllables = IF GroupsByRuns(rest) = 0 THEN 1 ELSE GroupsByRuns(rest)

\* A run of three vowels counted as two groups.
C20_Witness ==
  /\ IsLongWord
  /\ LET rest == StripLeadingY(StripSuffix(content))
     IN  \E i \in 1..(Len(rest) - 2) :
           /\ \A k \in i..(i + 2) : rest[k] \in Vowels
           /\ \A k \in DOMAIN rest : k \notin i..(i + 2) => rest[k] \notin Vowels
  /\ locals.syllables = 2

(***************************************************************************)
(* Properties of the counts, on inputs of tokens.                          *)
(***************************************************************************)
\* The lower-case letters of w, those of its capitals included, in order.
LettersOf(w) ==
  LET Lowered(ch) ==
        IF \E k \in DOMAIN UpperLetters : UpperLetters[k] = ch
        THEN LowerLetters[CHOOSE k \in DOMAIN UpperLetters : UpperLetters[k] = ch]
        ELSE ch
  IN  SelectSeq([i \in DOMAIN w |-> Lowered(w[i])], LAMBDA ch : ch \in Letters)

IsOneToken == Returned /\ content \in MixedWords /\ content # <<>>

\* C21: countSyllables lower-cases the word and drops every character
\* outside a-z before anything else: the count of a token is the count of
\* its letters in lower case, and when at most 3 letters are left, none
\* included, the count is exactly 1 whatever its vowels.
C21_CleanedShortWord ==
  IsOneToken =>
    /\ locals.syllables = countSyllables(LettersOf(content))
    /\ Len(LettersOf(content)) <= 3 => locals.syllables = 1

\* A token with a capital and a digit whose three letters hold two vowel
\* groups counted 1.
C21_Witness ==
  /\ IsOneToken
  /\ content = <<"A", "b", "a", "1">>
  /\ LettersOf(content) = <<"a", "b", "a">>
  /\ locals.syllables = 1

\* The number of segments of p between runs of terminators that hold a
\* character other than whitespace: a segment starts at a character that is
\* no terminator and follows a terminator or nothing.
SegmentsWithText(p) ==
  LET StartsSegment(i) ==
        p[i] \notin Terminators /\ (i = 1 \/ p[i - 1] \in Terminators)
      HasText(i) ==
        \E k \in i..Len(p) :
          /\ p[k] \notin Whitespace
          /\ \A j \in i..k : p[j] \notin Terminators
  IN  Cardinality({i \in DOMAIN p : StartsSegment(i) /\ HasText(i)})

\* C22: sentenceCount is max(n, 1), n being the number of segments with a
\* character other than whitespace that the runs of '.', '!' and '?' cut
\* the stripped text into, a run of several terminators being one
\* delimiter; a text without such a segment is one sentence.
C22_SentenceCount ==
  Returned =>
    quality.sentenceCount = Max(SegmentsWithText(locals.plainText), 1)

\* Two segments either side of the run "?!" counted as two sentences.
C22_Witness ==
  /\ Returned
  /\ content = <<"a", "?", "!", "a">>
  /\ quality.sentenceCount = 2

\* The number of tokens of p: a token starts at a character that is no
\* whitespace and follows whitespace or nothing.
TokenStarts(p) ==
  Cardinality({i \in DOMAIN p :
                 p[i] \notin Whitespace /\ (i = 1 \/ p[i - 1] \in Whitespace)})

\* C23: wordCount is the number of non-empty tokens between runs of
\* whitespace in the stripped plain text, not in the original markdown;
\* whitespace at either end adds no word.
C23_WordCount ==
  Returned => quality.wordCount = TokenStarts(locals.plainText)

\* An input with whitespace at both ends whose markdown holds more tokens
\* than its plain text.
C23_Witness ==
  /\ Returned
  /\ Len(content) >= 3
  /\ content[1] \in Whitespace
  /\ content[Len(content)] \in Whitespace
  /\ quality.wordCount >= 1
  /\ quality.wordCount = TokenStarts(locals.plainText)
  /\ TokenStarts(content) > quality.wordCount

(***************************************************************************)
(* Strengths against suggestions.                                          *)
(***************************************************************************)
IsStrength(text) == Has(quality.uniquenessIndicators, text)

IsSuggested(text) == Has(quality.suggestedImprovements, text)

\* C24: every result holds exactly one of the strength "Well-structured
\* with headings" and the suggestion "Add section headings to improve
\* structure": never both and never neither.
C24_HeadingsOneOfTwo ==
  Returned =>
    IsStrength("Well-structured with headings")
      # IsSuggested("Add section headings to improve structure")

\* A text with a single '#' and no "##": the suggestion without the
\* strength.
C24_Witness ==
  /\ Returned
  /\ Contains(content, {"#"})
  /\ ~ContainsDoubleHash
  /\ ~IsStrength("Well-structured with headings")
  /\ IsSuggested("Add section headings to improve structure")

\* C25: no result holds a strength with the suggestion that contradicts
\* it: "Clear, concise sentences" never comes with "Consider breaking up
\* long sentences for better readability", nor "Long-form content" with
\* "Consider expanding content for more depth".
C25_NoContradiction ==
  Returned =>
    /\ ~(/\ IsStrength("Clear, concise sentences")
         /\ IsSuggested("Consider breaking up long sentences for better readability"))
    /\ ~(/\ IsStrength("Long-form content")
         /\ IsSuggested("Consider expanding content for more depth"))

\* A long text of long sentences: a strength beside a suggestion that does
\* not contradict it.
C25_Witness ==
  /\ Returned
  /\ IsStrength("Long-form content")
  /\ IsSuggested("Consider breaking up long sentences for better readability")
  /\ ~IsStrength("Clear, concise sentences")
  /\ ~IsSuggested("Consider expanding content for more depth")

\* C26: every token between whitespace counts at least 1 syllable, the
\* tokens without a letter included (digits, punctuation, markers left
\* over), so the syllables in all are at least wordCount and, with at least
\* one word, the syllables per word are at least 1.
C26_SyllablesAtLeastWords ==
  Returned =>
    /\ locals.syllables >= quality.wordCount
    /\ locals.syllables = TotalSyllables(SplitWords(locals.plainText))
    /\ \A k \in DOMAIN SplitWords(locals.plainText) :
         countSyllables(SplitWords(locals.plainText)[k]) >= 1
    /\ quality.wordCount >= 1 =>
         /\ locals.avgSyllablesPerWord.den > 0
         /\ locals.avgSyllablesPerWord.num >= locals.avgSyllablesPerWord.den

\* Two tokens or more, none with a letter and one a marker left over, each
\* counted 1.
C26_Witness ==
  /\ Returned
  /\ quality.wordCount >= 2
  /\ ~Contains(locals.plainText, Letters)
  /\ Contains(locals.plainText, Markers)
  /\ Contains(locals.plainText, Digits)
  /\ locals.syllables = quality.wordCount
(***************************************************************************)
(* Properties of the ContentWriter component.                              *)
(***************************************************************************)
ResultIds(results) == [k \in DOMAIN results |-> results[k].id]

PositionOf(queue, id) == CHOOSE k \in DOMAIN queue : queue[k].id = id

\* Every idea at the positions from..to of the queue has a result.
GeneratedBetween(queue, results, from, to) ==
  \A k \in from..to : HasResult(results, queue[k].id)

\* No run is under way: processing is false and currentProcessingId null.
C27_AtRest ==
  ~Awaiting => ~writer.processing /\ writer.currentProcessingId = NullId

\* A run waits for one idea of the queue at a time.
C27_Waiting ==
  Awaiting =>
    /\ writer.processing
    /\ \E k \in DOMAIN writer.queue :
         writer.queue[k].id = writer.currentProcessingId

\* A step of the component seen from a run of handleProcessQueue: its
\* start, the return of an article, a failure, and the steps that are none
\* of the run.
C27_Step ==
  LET queue == writer.queue
      before == writer.results
      after == writer'.results
      waited == writer.currentProcessingId
      next == writer'.currentProcessingId
  IN  /\ ~Awaiting /\ Awaiting' =>
           /\ after = before
           /\ ~HasResult(before, next)
           /\ GeneratedBetween(queue, before, 1, PositionOf(queue, next) - 1)
      /\ ~Awaiting /\ ~Awaiting' => ResultIds(after) = ResultIds(before)
      /\ Awaiting =>
           \/ /\ Len(after) = Len(before) + 1
              /\ SubSeq(after, 1, Len(before)) = before
              /\ after[Len(after)].id = waited
              /\ IF Awaiting'
                 THEN /\ PositionOf(queue, next) > PositionOf(queue, waited)
                      /\ ~HasResult(after, next)
                      /\ GeneratedBetween(queue, after, PositionOf(queue, waited),
                                          PositionOf(queue, next) - 1)
                 ELSE /\ writer'.error = NoError
                      /\ GeneratedBetween(queue, after, 1, Len(queue))
           \/ /\ after = before
              /\ ~Awaiting'
              /\ writer'.error = StoppedAt(queue[PositionOf(queue, waited)].title)
              /\ \A k \in PositionOf(queue, waited)..Len(queue) :
                   HasResult(after, queue[k].id) =>
                     k > PositionOf(queue, waited) /\ HasResult(before, queue[k].id)
           \/ /\ ResultIds(after) = ResultIds(before)
              /\ Awaiting'
              /\ next = waited
              /\ writer'.error = writer.error

\* C27: handleProcessQueue generates the pending ideas one at a time in
\* queue order and stops at the first failure: the results produced before
\* the failure are kept, the failed idea and every idea after it get no
\* result, the error names the failed idea, and on every way out (success,
\* failure, nothing pending) processing is false and currentProcessingId is
\* null.
C27_RunInQueueOrder ==
  /\ [](C27_AtRest /\ C27_Waiting)
  /\ [][C27_Step]_vars

\* A run that produced the article of the first idea and failed on the
\* second.
C27_Witness ==
  /\ ~writer.processing
  /\ Len(writer.queue) = 2
  /\ writer.error = StoppedAt(writer.queue[2].title)
  /\ Len(writer.generatedHistory) = 1
  /\ writer.results = writer.generatedHistory
  /\ writer.results[1].id = writer.queue[1].id
  /\ writer.currentProcessingId = NullId

\* No idea of the queue lacks a result.
NothingPending ==
  GeneratedBetween(writer.queue, writer.results, 1, Len(writer.queue))

\* The results hold one entry per id at most.
C28_OnePerId ==
  \A j, k \in DOMAIN writer.results :
    j # k => writer.results[j].id # writer.results[k].id

\* The idea that writeContent was called for has no result.
C28_RequestedIsPending ==
  Awaiting => ~HasResult(writer.results, writer.currentProcessingId)

\* A call of handleProcessQueue: with nothing pending it sets the error and
\* waits for nothing, otherwise it waits for an idea without a result.
C28_Start ==
  handleProcessQueue =>
    IF NothingPending
    THEN /\ writer'.error = AllGenerated
         /\ ~Awaiting'
         /\ ~writer'.processing
         /\ writer'.results = writer.results
    ELSE /\ Awaiting'
         /\ ~HasResult(writer.results, writer'.currentProcessingId)

\* C28: handleProcessQueue never requests content for an idea whose id is
\* already in results, and when no idea is pending it sets the error 'All
\* selected ideas have already been generated.' without calling
\* writeContent; for a queue of distinct ids and runs that do not overlap,
\* results holds one entry per idea id at most after any sequence of runs.
C28_NoRepeatedRequest ==
  /\ [](C28_OnePerId /\ C28_RequestedIsPending)
  /\ [][C28_Start]_vars

\* The cached article of one idea was not requested again, the other idea
\* was generated, and a later call found nothing pending.
C28_Witness ==
  /\ writer.error = AllGenerated
  /\ Len(writer.queue) = 2
  /\ Len(writer.results) = 2
  /\ Len(writer.generatedHistory) = 1
  /\ ~writer.processing

\* A step of handleContentUpdate(id, newContent) on the results before and
\* after it.
ContentOnlyChanged(before, after, id, newContent) ==
  /\ Len(after) = Len(before)
  /\ \A k \in DOMAIN before :
       /\ after[k].id = before[k].id
       /\ after[k].title = before[k].title
       /\ after[k].quality = before[k].quality
       /\ after[k].wordCount = before[k].wordCount
       /\ after[k].content =
            IF before[k].id = id THEN newContent ELSE before[k].content
  /\ ~HasResult(before, id) => after = before

\* C29: handleContentUpdate(id, newContent) changes only the content field
\* of the result whose id matches: its quality record and wordCount are not
\* computed again, and every other result, their order and the length of
\* the list are unchanged; when no result has that id the list is unchanged.
C29_ContentUpdateFrame ==
  [][\A id \in IdeaIds \cup {MaxQueue + 1}, newContent \in EditedContents :
       handleContentUpdate(id, newContent) =>
         /\ ContentOnlyChanged(writer.results, writer'.results, id, newContent)
         /\ writer' = [writer EXCEPT !.results = writer'.results]]_vars

\* Of two results one was edited and still carries the measures of the
\* text it was generated with; the other one is as generated.
C29_Witness ==
  /\ Len(writer.results) = 2
  /\ writer.results[1].content \in EditedContents
  /\ writer.results[1].wordCount # Len(SplitWords(writer.results[1].content))
  /\ writer.results[1].quality.wordCount = writer.results[1].wordCount
  /\ writer.results[2].content \notin EditedContents
  /\ writer.results[2].wordCount = Len(SplitWords(writer.results[2].content))

(***************************************************************************)
(* Properties of the article record.                                       *)
(***************************************************************************)
\* C30: in every article record returned by writeContent, quality is
\* calculateContentQuality of the cleaned text that is stored in content
\* (the answer after cleanContentArtifacts), and wordCount equals
\* quality.wordCount.
C30_QualityOfCleanedContent ==
  \A k \in DOMAIN writer.results :
    LET article == writer.results[k]
    IN  /\ k = Len(writer.results) =>
             article.content = cleanContentArtifacts(writer.response)
        /\ article.quality = ContentQuality(Locals(article.content))
        /\ article.wordCount = article.quality.wordCount

\* An article whose answer had a title line, which the cleaning took away,
\* with the two words of the cleaned text.
C30_Witness ==
  /\ Len(writer.results) = 1
  /\ writer.response =
       <<"T", "i", "t", "l", "e", ":", " ", "a", "\n", "a", " ", "b", ".">>
  /\ writer.results[1].content = <<"a", " ", "b", ".">>
  /\ writer.results[1].wordCount = 2
  /\ writer.results[1].quality.wordCount = 2

====
